---- MODULE Spec2Model ----
(***************************************************************************)
(* State-machine model of EDDataUpdateCoordinator                          *)
(* (custom_components/ecole_directe/coordinator.py): the periodic refresh  *)
(* _async_update_data, the differ compare_data and the notifier            *)
(* trigger_event.                                                          *)
(*                                                                         *)
(* One behaviour is a sequence of ticks.  Every `await` of the refresh is  *)
(* a step boundary: an action runs the coroutine from one await to the     *)
(* next (or to its return).                                                *)
(***************************************************************************)
EXTENDS Integers, Sequences, FiniteSets, TLC

VARIABLES
    data,           \* self.data: None or a dict (key -> value)
    pc,             \* where the refresh coroutine is suspended
    idx,            \* index in session.eleves of the eleve being fetched
    previous_data,  \* local of _async_update_data (line 56)
    session,        \* local of _async_update_data (line 60)
    events,         \* payloads fired on hass.bus since the tick (or diff run) began
    ret,            \* outcome of the last finished tick, and where it ended
    remote,         \* the remote service: the eleves of the account, the grade lists it serves
    log,            \* the fetches of the current tick, in order, with their outcomes
    hist,           \* across ticks: what was notified and what was fetched so far
    calls,          \* per direct call of compare_data: its arguments and what it fired
    now_year,       \* datetime.datetime.now().year
    year_data       \* local of _async_update_data (lines 72-75), "" before it is set

vars == <<data, pc, idx, previous_data, session, events, ret, remote, log, hist, calls,
          now_year, year_data>>

----------------------------------------------------------------------------
(* Bounds *)

\* longest grades list a fetch returns during a tick
MaxFeed == 1
\* longest grades list handed to a direct run of compare_data
MaxLen == 2
\* the calendar years the clock may show
FirstYear == 2019
LastYear == 2026

----------------------------------------------------------------------------
(* Python values *)

None == [isNone |-> TRUE]
\* an attribute the object does not have: reading it raises AttributeError
NoAttribute == [isNone |-> FALSE, missing |-> TRUE]
Some(d) == [isNone |-> FALSE, map |-> d]

\* d[k] = v on a dict
Put(d, k, v) == [x \in (DOMAIN d) \cup {k} |-> IF x = k THEN v ELSE d[x]]

SeqsUpTo(S, n) == UNION {[1..m -> S] : m \in 0..n}

----------------------------------------------------------------------------
(* Records of the remote service *)

\* EDGrade objects, by the raw fields of the payload they are built from
\* (the payload of lines 149-169).  gA and gA2 differ in the comment only.
\* gNoOutOf lacks noteSur; gBroken lacks almost everything.
gA == [date |-> "2024-01-01", libelleMatiere |-> "MATH", noteSur |-> "20", commentaire |-> ""]
gA2 == [date |-> "2024-01-01", libelleMatiere |-> "MATH", noteSur |-> "20", commentaire |-> "bien"]
gB == [date |-> "2024-01-02", libelleMatiere |-> "MATH", noteSur |-> "20", commentaire |-> ""]
gNoOutOf == [date |-> "2024-01-03", libelleMatiere |-> "MATH", commentaire |-> ""]
gBroken == [date |-> "2024-01-04"]

\* the grades a fetch may return during a tick (two eleves; one eleve), and
\* the grades given to a direct run of compare_data
TickGrades == {gA, gBroken}
HistGrades == {gA, gB, gBroken}
AllGrades == {gA, gA2, gB, gNoOutOf, gBroken}

\* format_grade raises on g
FormatRaises(g) == ~({"date", "libelleMatiere", "commentaire"} \subseteq DOMAIN g)

\* format_grade(g), for a g it does not raise on: the mapping of named fields
format_grade(g) ==
    LET base == [date |-> g.date, subject |-> g.libelleMatiere, comment |-> g.commentaire]
    IN  IF "noteSur" \in DOMAIN g
        THEN [k \in {"date", "subject", "comment", "grade_out_of"} |->
                 IF k = "grade_out_of" THEN g.noteSur ELSE base[k]]
        ELSE base

\* EDEleve.get_fullname_lower
get_fullname_lower(eleve) ==
    CASE eleve.fullname = "Jane Doe" -> "jane doe"
      [] eleve.fullname = "JANE DOE" -> "jane doe"
      [] eleve.fullname = "Bob Roe" -> "bob roe"

\* EDEleve.get_fullname
get_fullname(eleve) == eleve.fullname

\* f"{eleve.get_fullname_lower()}_{category}"
DataKey(eleve, category) == get_fullname_lower(eleve) \o "_" \o category

----------------------------------------------------------------------------
(* trigger_event and compare_data *)

\* the payload trigger_event hands to hass.bus.fire
trigger_event(event_type, eleve, event_data) ==
    [child_name |-> get_fullname(eleve), type |-> event_type, data |-> event_data]

\* compare_keys of the grades diff
CompareKeys == {"date", "subject", "grade_out_of"}

\* {key: format_func(item)[key] for key in compare_keys} raises on g
ProjRaises(g) == FormatRaises(g) \/ ~(CompareKeys \subseteq DOMAIN format_grade(g))

\* {key: format_func(item)[key] for key in compare_keys}
Projection(g) == [key \in CompareKeys |-> format_grade(g)[key]]

\* FindIn with the test of line 202 inverted (!= for ==)
RECURSIVE FindIn_inverted(_, _, _)
FindIn_inverted(item, prev, j) ==
    IF j > Len(prev) THEN "notfound"
    ELSE IF ProjRaises(prev[j]) \/ ProjRaises(item) THEN "raise"
    ELSE IF Projection(prev[j]) # Projection(item) THEN "found"
    ELSE FindIn_inverted(item, prev, j + 1)

\* FindIn comparing the whole formatted records, not their projections
RECURSIVE FindIn_whole(_, _, _)
FindIn_whole(item, prev, j) ==
    IF j > Len(prev) THEN "notfound"
    ELSE IF ProjRaises(prev[j]) \/ ProjRaises(item) THEN "raise"
    ELSE IF format_grade(prev[j]) = format_grade(item) THEN "found"
    ELSE FindIn_whole(item, prev, j + 1)

\* the inner loop over previous_data[data_key], from its j-th item:
\* "found", "notfound", or "raise" when a projection raises
RECURSIVE FindIn(_, _, _)
FindIn(item, prev, j) ==
    IF j > Len(prev) THEN "notfound"
    ELSE IF ProjRaises(prev[j]) \/ ProjRaises(item) THEN "raise"
    ELSE IF Projection(prev[j]) = Projection(item) THEN "found"
    ELSE FindIn(item, prev, j + 1)

\* Scan whose `break` leaves the outer loop too
RECURSIVE Scan_break(_, _, _)
Scan_break(cur, prev, i) ==
    IF i > Len(cur) THEN [raised |-> FALSE, items |-> <<>>]
    ELSE LET f == FindIn(cur[i], prev, 1)
         IN  IF f = "raise" THEN [raised |-> TRUE, items |-> <<>>]
             ELSE IF f = "found" THEN [raised |-> FALSE, items |-> <<>>]
             ELSE LET rest == Scan_break(cur, prev, i + 1)
                  IN  IF rest.raised THEN rest
                      ELSE [raised |-> FALSE, items |-> <<i>> \o rest.items]

\* Scan that passes over an item whose comparison raises
RECURSIVE Scan_skipping(_, _, _)
Scan_skipping(cur, prev, i) ==
    IF i > Len(cur) THEN [raised |-> FALSE, items |-> <<>>]
    ELSE LET f == FindIn(cur[i], prev, 1)
             rest == Scan_skipping(cur, prev, i + 1)
         IN  [raised |-> FALSE,
              items |-> IF f = "notfound" THEN <<i>> \o rest.items ELSE rest.items]

\* the outer loop over self.data[data_key], from its i-th item: whether it
\* raised, and not_found_items (as positions in self.data[data_key])
RECURSIVE Scan(_, _, _)
Scan(cur, prev, i) ==
    IF i > Len(cur) THEN [raised |-> FALSE, items |-> <<>>]
    ELSE LET f == FindIn(cur[i], prev, 1)
         IN  IF f = "raise" THEN [raised |-> TRUE, items |-> <<>>]
             ELSE LET rest == Scan(cur, prev, i + 1)
                  IN  IF rest.raised THEN rest
                      ELSE [raised |-> FALSE,
                            items |-> IF f = "notfound" THEN <<i>> \o rest.items
                                      ELSE rest.items]

\* Fire that stops one item early
RECURSIVE Fire_short(_, _, _, _, _)
Fire_short(items, cur, event_type, eleve, k) ==
    IF k >= Len(items) THEN [raised |-> FALSE, fired |-> <<>>]
    ELSE IF FormatRaises(cur[items[k]]) THEN [raised |-> TRUE, fired |-> <<>>]
    ELSE LET rest == Fire_short(items, cur, event_type, eleve, k + 1)
         IN  [raised |-> rest.raised,
              fired |-> <<trigger_event(event_type, eleve, format_grade(cur[items[k]]))>>
                        \o rest.fired]

\* the loop over not_found_items, from its k-th item: the payloads fired
\* before it ends or format_func raises
RECURSIVE Fire(_, _, _, _, _)
Fire(items, cur, event_type, eleve, k) ==
    IF k > Len(items) THEN [raised |-> FALSE, fired |-> <<>>]
    ELSE IF FormatRaises(cur[items[k]]) THEN [raised |-> TRUE, fired |-> <<>>]
    ELSE LET rest == Fire(items, cur, event_type, eleve, k + 1)
         IN  [raised |-> rest.raised,
              fired |-> <<trigger_event(event_type, eleve, format_grade(cur[items[k]]))>>
                        \o rest.fired]

\* Scan that keeps the items found new before a projection raised
RECURSIVE Scan_keeping(_, _, _)
Scan_keeping(cur, prev, i) ==
    IF i > Len(cur) THEN [raised |-> FALSE, items |-> <<>>]
    ELSE LET f == FindIn(cur[i], prev, 1)
         IN  IF f = "raise" THEN [raised |-> TRUE, items |-> <<>>]
             ELSE LET rest == Scan_keeping(cur, prev, i + 1)
                  IN  [raised |-> rest.raised,
                       items |-> IF f = "notfound" THEN <<i>> \o rest.items
                                 ELSE rest.items]

\* compare_data that fires for a new item as soon as it is scanned
compare_data_eager(prev_data, selfdata, data_key, event_type, eleve) ==
    IF /\ ~prev_data.isNone
       /\ data_key \in DOMAIN prev_data.map
       /\ data_key \in DOMAIN selfdata
    THEN LET s == Scan_keeping(selfdata[data_key], prev_data.map[data_key], 1)
             f == Fire(s.items, selfdata[data_key], event_type, eleve, 1)
         IN  [fired |-> f.fired,
              positions |-> SubSeq(s.items, 1, Len(f.fired)),
              raised |-> s.raised \/ f.raised]
    ELSE [fired |-> <<>>, positions |-> <<>>, raised |-> FALSE]

\* compare_data without the guard of lines 191-195 on previous_data: a
\* missing previous list counts as an empty one
compare_data_unguarded(prev_data, selfdata, data_key, event_type, eleve) ==
    IF data_key \in DOMAIN selfdata
    THEN LET prev == IF prev_data.isNone \/ data_key \notin DOMAIN prev_data.map
                     THEN <<>> ELSE prev_data.map[data_key]
             s == Scan(selfdata[data_key], prev, 1)
             f == Fire(s.items, selfdata[data_key], event_type, eleve, 1)
         IN  IF s.raised THEN [fired |-> <<>>, positions |-> <<>>, raised |-> TRUE]
             ELSE [fired |-> f.fired,
                   positions |-> SubSeq(s.items, 1, Len(f.fired)),
                   raised |-> f.raised]
    ELSE [fired |-> <<>>, positions |-> <<>>, raised |-> TRUE]

\* compare_data(previous_data, data_key, compare_keys, event_type, eleve,
\* format_func) with self.data = selfdata: the payloads it fires (in order),
\* the positions in self.data[data_key] they were fired for, and whether an
\* exception was caught
compare_data(prev_data, selfdata, data_key, event_type, eleve) ==
    IF /\ ~prev_data.isNone
       /\ data_key \in DOMAIN prev_data.map
       /\ data_key \in DOMAIN selfdata
    THEN LET s == Scan(selfdata[data_key], prev_data.map[data_key], 1)
             f == Fire(s.items, selfdata[data_key], event_type, eleve, 1)
         IN  IF s.raised THEN [fired |-> <<>>, positions |-> <<>>, raised |-> TRUE]
             ELSE [fired |-> f.fired,
                   positions |-> SubSeq(s.items, 1, Len(f.fired)),
                   raised |-> f.raised]
    ELSE [fired |-> <<>>, positions |-> <<>>, raised |-> FALSE]

----------------------------------------------------------------------------
(* The academic-year label *)

Digit == <<"0", "1", "2", "3", "4", "5", "6", "7", "8", "9">>

\* str(n) for an int n >= 0: its decimal digits
RECURSIVE str(_)
str(n) == IF n < 10 THEN Digit[n + 1] ELSE str(n \div 10) \o Digit[(n % 10) + 1]

\* year_label with the parity test of line 72 inverted
year_label_odd(current_year) ==
    IF (current_year % 2) # 0
    THEN str(current_year - 1) \o "-" \o str(current_year)
    ELSE str(current_year) \o "-" \o str(current_year + 1)

\* lines 72-75: year_data for the calendar year current_year
year_label(current_year) ==
    IF (current_year % 2) = 0
    THEN str(current_year - 1) \o "-" \o str(current_year)
    ELSE str(current_year) \o "-" \o str(current_year + 1)

----------------------------------------------------------------------------
(* The refresh *)

Category == <<"homework", "grades", "lessons">>
Module == <<"CAHIER_DE_TEXTES", "NOTES", "EDT">>

Jane == [eleve_id |-> 1, fullname |-> "Jane Doe",
         modules |-> {"CAHIER_DE_TEXTES", "NOTES", "EDT"}]
Bob == [eleve_id |-> 2, fullname |-> "Bob Roe", modules |-> {"NOTES"}]
JANE == [eleve_id |-> 3, fullname |-> "JANE DOE", modules |-> {"NOTES"}]

\* session.eleves as the remote service may report it
Rosters == {<<Jane, Bob>>, <<Jane, JANE>>}

Tokens == {"t1", "t2"}
HomeworkFeeds == {<<"devoir">>}
LessonFeeds == {<<"cours">>}

\* what the formatted comparison-key fields of g show: nothing when
\* format_grade raises, else the comparison keys the formatted record has
KeyView(g) ==
    IF FormatRaises(g) THEN [key \in {} |-> ""]
    ELSE [key \in CompareKeys \cap DOMAIN format_grade(g) |-> format_grade(g)[key]]

\* the same, read off a fired payload
EventView(ev) == [key \in CompareKeys \cap DOMAIN ev.data |-> ev.data[key]]

\* hist after eleve's grades fetch returned feed and the diff fired `fired`
Remember(h, eleve, feed, fired) ==
    IF ~h.on THEN h
    ELSE [on |-> TRUE,
          notified |-> h.notified
                       \cup {<<fired[k].child_name, EventView(fired[k])>> : k \in 1..Len(fired)},
          seen |-> h.seen
                   \cup {<<eleve.eleve_id, KeyView(feed[i])>> :
                            i \in {n \in 1..Len(feed) : ~ProjRaises(feed[n])}},
          had |-> h.had \cup {eleve.eleve_id}]

\* from block c of eleve i on: the first block whose module test passes,
\* or the return of line 177
RECURSIVE Advance(_, _, _)
Advance(eleves, i, c) ==
    IF i > Len(eleves) THEN [idx |-> 0, pc |-> "idle"]
    ELSE IF c > Len(Category) THEN Advance(eleves, i + 1, 1)
    ELSE IF Module[c] \in eleves[i].modules THEN [idx |-> i, pc |-> Category[c]]
    ELSE Advance(eleves, i, c + 1)

\* run on from block c of eleve i with self.data = d, up to the next await
\* or to `return self.data`, whose value the coordinator keeps as self.data
Proceed(eleves, i, c, d) ==
    LET n == Advance(eleves, i, c)
    IN  /\ pc' = n.pc
        /\ idx' = n.idx
        /\ data' = Some(d)
        /\ ret' = IF n.pc = "idle" THEN [kind |-> "returned", value |-> Some(d), at |-> "end"]
                  ELSE ret

\* the fetch of `category` for the eleve at idx ended: with `feed`, or by
\* raising an Exception, which the handler of the block caught
Logged(category, ok, feed, raised) ==
    log' = Append(log, [idx |-> idx, category |-> category, ok |-> ok, feed |-> feed,
                        compare_raised |-> raised, escaped |-> FALSE])

\* the await of the fetch of `category` raised what is no Exception (the
\* task was cancelled there: CancelledError; SystemExit; KeyboardInterrupt).
\* `except Exception` does not catch it: the refresh ends with it and
\* self.data stays as assembled so far
Escapes(category) ==
    /\ pc = category
    /\ pc' = "idle"
    /\ idx' = 0
    /\ ret' = [kind |-> "raised", value |-> None, at |-> category]
    /\ log' = Append(log, [idx |-> idx, category |-> category, ok |-> FALSE, feed |-> <<>>,
                           compare_raised |-> FALSE, escaped |-> TRUE])
    /\ UNCHANGED <<data, previous_data, session, events, remote, hist, calls, now_year,
                   year_data>>

\* TickStart that keeps the copy of an earlier tick when self.data is None
TickStart_keeps_previous ==
    /\ pc = "idle"
    /\ data # NoAttribute
    /\ previous_data' = IF data.isNone THEN previous_data ELSE data
    /\ session' = None
    /\ events' = <<>>
    /\ log' = <<>>
    /\ pc' = "session"
    /\ UNCHANGED <<data, idx, ret, remote, hist, calls, now_year, year_data>>

\* line 56 on an object without the attribute data: AttributeError ends
\* the refresh at its first statement
TickStartRaises ==
    /\ pc = "idle"
    /\ data = NoAttribute
    /\ ret' = [kind |-> "raised", value |-> None, at |-> "start"]
    /\ UNCHANGED <<data, pc, idx, previous_data, session, events, remote, log, hist, calls,
                   now_year, year_data>>

\* lines 56-60: copy self.data, ask for a session
TickStart ==
    /\ pc = "idle"
    /\ data # NoAttribute
    /\ previous_data' = data
    /\ session' = None
    /\ events' = <<>>
    /\ log' = <<>>
    /\ pc' = "session"
    /\ UNCHANGED <<data, idx, ret, remote, hist, calls, now_year, year_data>>

\* SessionOk without the reset of line 68: the new session is put into the
\* dict of the previous tick
SessionOk_no_reset ==
    /\ pc = "session"
    /\ \E token \in Tokens :
         LET s == [token |-> token, eleves |-> remote.eleves]
         IN  /\ session' = Some(s)
             /\ Proceed(s.eleves, 1, 1,
                        IF previous_data.isNone THEN [k \in {"session"} |-> s]
                        ELSE Put(previous_data.map, "session", s))
    /\ year_data' = year_label(now_year)
    /\ UNCHANGED <<previous_data, events, remote, log, hist, calls, now_year>>

\* lines 60-93: a session is returned; self.data = {"session": session}
SessionOk ==
    /\ pc = "session"
    /\ \E token \in Tokens :
         LET s == [token |-> token, eleves |-> remote.eleves]
         IN  /\ session' = Some(s)
             /\ Proceed(s.eleves, 1, 1, [k \in {"session"} |-> s])
    /\ year_data' = year_label(now_year)
    /\ UNCHANGED <<previous_data, events, remote, log, hist, calls, now_year>>

\* SessionNone with lines 68 and 64 swapped: the empty dict is returned
SessionNone_empty ==
    /\ pc = "session"
    /\ pc' = "idle"
    /\ ret' = [kind |-> "returned", value |-> Some([k \in {} |-> <<>>]), at |-> "session"]
    /\ data' = Some([k \in {} |-> <<>>])
    /\ UNCHANGED <<idx, previous_data, session, events, remote, log, hist, calls, now_year, year_data>>

\* lines 64-66: no session; `return None`.  The refresh itself leaves
\* self.data alone; what becomes of the returned None is up to the caller,
\* which may store it as self.data (as the platform's coordinator does with
\* every returned value) or not
SessionNone ==
    /\ pc = "session"
    /\ pc' = "idle"
    /\ ret' = [kind |-> "returned", value |-> None, at |-> "session"]
    /\ data' \in {data, None}
    /\ UNCHANGED <<idx, previous_data, session, events, remote, log, hist, calls, now_year, year_data>>

\* lines 60-62: get_ecoledirecte_session raises; nothing catches it, the
\* refresh ends with the exception and self.data is left as it was
SessionRaises ==
    /\ pc = "session"
    /\ pc' = "idle"
    /\ ret' = [kind |-> "raised", value |-> None, at |-> "session"]
    /\ UNCHANGED <<data, idx, previous_data, session, events, remote, log, hist, calls, now_year, year_data>>

\* lines 94-99: get_homeworks returns
HomeworkOk ==
    /\ pc = "homework"
    /\ \E feed \in HomeworkFeeds :
         LET eleve == session.map.eleves[idx]
         IN  /\ Proceed(session.map.eleves, idx, 2,
                        Put(data.map, DataKey(eleve, "homework"), feed))
             /\ Logged("homework", TRUE, feed, FALSE)
    /\ UNCHANGED <<previous_data, session, events, remote, hist, calls, now_year, year_data>>

\* lines 100-103: get_homeworks raises
HomeworkRaises ==
    /\ pc = "homework"
    /\ Proceed(session.map.eleves, idx, 2, data.map)
    /\ Logged("homework", FALSE, <<>>, FALSE)
    /\ UNCHANGED <<previous_data, session, events, remote, hist, calls, now_year, year_data>>

\* lines 94-103: the await of get_homeworks raises what is no Exception
HomeworkEscapes == Escapes("homework")

\* GradesOk with a compare_data that lets its exception escape: the
\* refresh ends with it
GradesOk_uncaught ==
    /\ pc = "grades"
    /\ \E feed \in remote.feeds :
         LET eleve == session.map.eleves[idx]
             key == DataKey(eleve, "grades")
             d == Put(data.map, key, feed)
             r == compare_data(previous_data, d, key, "new_grade", eleve)
         IN  /\ events' = events \o r.fired
             /\ IF r.raised
                THEN /\ pc' = "idle"
                     /\ idx' = 0
                     /\ data' = Some(d)
                     /\ ret' = [kind |-> "raised", value |-> None, at |-> "grades"]
                ELSE Proceed(session.map.eleves, idx, 3, d)
             /\ Logged("grades", TRUE, feed, r.raised)
             /\ hist' = Remember(hist, eleve, feed, r.fired)
    /\ UNCHANGED <<previous_data, session, remote, calls, now_year, year_data>>

\* lines 105-122: get_grades returns; the result is stored, then compared
GradesOk ==
    /\ pc = "grades"
    /\ \E feed \in remote.feeds :
         LET eleve == session.map.eleves[idx]
             key == DataKey(eleve, "grades")
             d == Put(data.map, key, feed)
             r == compare_data(previous_data, d, key, "new_grade", eleve)
         IN  /\ events' = events \o r.fired
             /\ Proceed(session.map.eleves, idx, 3, d)
             /\ Logged("grades", TRUE, feed, r.raised)
             /\ hist' = Remember(hist, eleve, feed, r.fired)
    /\ UNCHANGED <<previous_data, session, remote, calls, now_year, year_data>>

\* lines 123-124: get_grades raises
GradesRaises ==
    /\ pc = "grades"
    /\ Proceed(session.map.eleves, idx, 3, data.map)
    /\ Logged("grades", FALSE, <<>>, FALSE)
    /\ UNCHANGED <<previous_data, session, events, remote, hist, calls, now_year, year_data>>

\* lines 105-124: the await of get_grades raises what is no Exception
GradesEscapes == Escapes("grades")

\* lines 127-132: get_lessons returns
LessonsOk ==
    /\ pc = "lessons"
    /\ \E feed \in LessonFeeds :
         LET eleve == session.map.eleves[idx]
         IN  /\ Proceed(session.map.eleves, idx, 4,
                        Put(data.map, DataKey(eleve, "lessons"), feed))
             /\ Logged("lessons", TRUE, feed, FALSE)
    /\ UNCHANGED <<previous_data, session, events, remote, hist, calls, now_year, year_data>>

\* lines 134-135: get_lessons raises
LessonsRaises ==
    /\ pc = "lessons"
    /\ Proceed(session.map.eleves, idx, 4, data.map)
    /\ Logged("lessons", FALSE, <<>>, FALSE)
    /\ UNCHANGED <<previous_data, session, events, remote, hist, calls, now_year, year_data>>

\* lines 127-135: the await of get_lessons raises what is no Exception
LessonsEscapes == Escapes("lessons")

\* the coordinator as constructed, no refresh running.  __init__ leaves
\* self.data to the base class (line 43): it is None, the case line 56
\* tests for, or the object has no such attribute
Constructed ==
    /\ data \in {None, NoAttribute}
    /\ pc = "idle"
    /\ idx = 0
    /\ previous_data = None
    /\ session = None
    /\ events = <<>>
    /\ ret = [kind |-> "none", value |-> None, at |-> "none"]
    /\ log = <<>>
    /\ calls = <<>>
    /\ year_data = ""

NoHistory == [on |-> FALSE, notified |-> {}, seen |-> {}, had |-> {}]

Init ==
    /\ Constructed
    /\ remote \in {[eleves |-> r, feeds |-> SeqsUpTo(TickGrades, MaxFeed)] : r \in Rosters}
    /\ hist = NoHistory
    /\ now_year = FirstYear

Next ==
    \/ TickStart
    \/ TickStartRaises
    \/ SessionOk
    \/ SessionNone
    \/ SessionRaises
    \/ HomeworkOk
    \/ HomeworkRaises
    \/ HomeworkEscapes
    \/ GradesOk
    \/ GradesRaises
    \/ GradesEscapes
    \/ LessonsOk
    \/ LessonsRaises
    \/ LessonsEscapes

Spec == Init /\ [][Next]_vars

\* the steps that end an await: the awaited call returns or raises
Resume ==
    \/ SessionOk
    \/ SessionNone
    \/ SessionRaises
    \/ HomeworkOk
    \/ HomeworkRaises
    \/ HomeworkEscapes
    \/ GradesOk
    \/ GradesRaises
    \/ GradesEscapes
    \/ LessonsOk
    \/ LessonsRaises
    \/ LessonsEscapes

\* two eleves of different names; grades lists of malformed records, on
\* which every comparison raises
LiveInit ==
    /\ Constructed
    /\ remote = [eleves |-> <<Jane, Bob>>, feeds |-> SeqsUpTo({gBroken}, MaxFeed)]
    /\ hist = NoHistory
    /\ now_year = FirstYear

\* every awaited call eventually returns or raises
SpecLive == LiveInit /\ [][Next]_vars /\ WF_vars(Resume)

\* one eleve, and a record kept across ticks of what was notified and fetched
HistInit ==
    /\ Constructed
    /\ remote = [eleves |-> <<Jane>>, feeds |-> SeqsUpTo(HistGrades, MaxFeed)]
    /\ hist = [on |-> TRUE, notified |-> {}, seen |-> {}, had |-> {}]
    /\ now_year = FirstYear

SpecHist == HistInit /\ [][Next]_vars

\* the clock passes into the next calendar year
NewYear ==
    /\ now_year < LastYear
    /\ now_year' = now_year + 1
    /\ UNCHANGED <<data, pc, idx, previous_data, session, events, ret, remote, log, hist,
                   calls, year_data>>

\* one eleve with every module, and a clock that starts in any year
YearInit ==
    /\ Constructed
    /\ remote = [eleves |-> <<Jane>>, feeds |-> {<<>>}]
    /\ hist = NoHistory
    /\ now_year \in FirstYear..LastYear

YearNext == Next \/ NewYear

SpecYear == YearInit /\ [][YearNext]_vars

----------------------------------------------------------------------------
(* Direct runs of compare_data *)

\* the lists that agree with list s, record by record, on the formatted
\* comparison-key fields (and may differ in any other field)
RECURSIVE SameKeyLists(_)
SameKeyLists(s) ==
    IF s = <<>> THEN {<<>>}
    ELSE {<<h>> \o t : h \in {g \in AllGrades : KeyView(g) = KeyView(Head(s))},
                      t \in SameKeyLists(Tail(s))}

DiffLists == SeqsUpTo(AllGrades, MaxLen)

\* the dicts a caller may pass: the grades key absent, or holding a list
DiffDicts ==
    LET base == [k \in {"session"} |-> [token |-> "t1", eleves |-> <<Jane>>]]
    IN  {base} \cup {Put(base, DataKey(Jane, "grades"), s) : s \in DiffLists}

\* self.data and previous_data as a caller may pass them to compare_data
DiffInit ==
    /\ pc = "diff"
    /\ remote = [eleves |-> <<Jane>>, feeds |-> {}]
    /\ log = <<>>
    /\ hist = NoHistory
    /\ data \in {Some(d) : d \in DiffDicts}
    /\ previous_data \in {None} \cup {Some(d) : d \in DiffDicts}
    /\ idx = 1
    /\ session = None
    /\ events = <<>>
    /\ ret = [kind |-> "none", value |-> None, at |-> "none"]
    /\ calls = <<>>
    /\ now_year = FirstYear
    /\ year_data = ""

\* RunDiff of a differ that remembers what it has put on the bus and fires
\* no payload a second time
RunDiff_dedup(p, d) ==
    LET eleve == remote.eleves[idx]
        r == compare_data(p, d.map, DataKey(eleve, "grades"), "new_grade", eleve)
        Fresh(k) == \A m \in 1..Len(events) : events[m] # r.fired[k]
        keep == {k \in 1..Len(r.fired) : Fresh(k)}
        Pick(q) == SelectSeq([k \in 1..Len(r.fired) |-> <<k, q[k]>>],
                             LAMBDA x : x[1] \in keep)
        fired == [k \in 1..Len(Pick(r.fired)) |-> Pick(r.fired)[k][2]]
        positions == [k \in 1..Len(Pick(r.fired)) |-> Pick(r.positions)[k][2]]
    IN  /\ events' = events \o fired
        /\ calls' = Append(calls, [previous_data |-> p, data |-> d,
                                   rerun |-> (p = previous_data /\ d = data),
                                   fired |-> fired,
                                   positions |-> positions, raised |-> r.raised])
        /\ UNCHANGED <<data, pc, idx, previous_data, session, ret, remote, log, hist, now_year, year_data>>

\* one call compare_data(p, key, keys, "new_grade", eleve, format_grade)
\* with self.data = d: the payloads go to the bus; nothing else changes.
\* rerun: the call is on the coordinator's own pair
RunDiff(p, d) ==
    LET eleve == remote.eleves[idx]
        r == compare_data(p, d.map, DataKey(eleve, "grades"), "new_grade", eleve)
    IN  /\ events' = events \o r.fired
        /\ calls' = Append(calls, [previous_data |-> p, data |-> d,
                                   rerun |-> (p = previous_data /\ d = data),
                                   fired |-> r.fired,
                                   positions |-> r.positions, raised |-> r.raised])
        /\ UNCHANGED <<data, pc, idx, previous_data, session, ret, remote, log, hist, now_year, year_data>>

\* compare_data is called (a first or a second time) on the same pair
DiffCall ==
    /\ pc = "diff"
    /\ Len(calls) < 2
    /\ RunDiff(previous_data, data)

\* the second call is on a pair that differs from the first in fields that
\* are not comparison keys
DiffCallVariant ==
    /\ pc = "diff"
    /\ Len(calls) = 1
    /\ LET key == DataKey(remote.eleves[idx], "grades")
           Alt(x) == IF x.isNone \/ key \notin DOMAIN x.map THEN {x}
                     ELSE {Some(Put(x.map, key, t)) : t \in SameKeyLists(x.map[key])}
       IN  \E p \in Alt(previous_data), d \in Alt(data) :
               /\ <<p, d>> # <<previous_data, data>>
               /\ RunDiff(p, d)

DiffNext == DiffCall \/ DiffCallVariant

SpecDiff == DiffInit /\ [][DiffNext]_vars

----------------------------------------------------------------------------
(* Properties of compare_data, on its direct runs (SpecDiff) *)

DiffKey == DataKey(Jane, "grades")

\* both dicts of call c hold the grades key
BothPresent(c) ==
    /\ ~c.previous_data.isNone
    /\ DiffKey \in DOMAIN c.previous_data.map
    /\ DiffKey \in DOMAIN c.data.map

PrevList(c) == c.previous_data.map[DiffKey]
CurList(c) == c.data.map[DiffKey]

\* the positions of cur whose record has a projection onto the comparison
\* keys that is the projection of no record of prev
NewPositions(prev, cur) ==
    {i \in 1..Len(cur) :
        /\ ~ProjRaises(cur[i])
        /\ \A j \in 1..Len(prev) :
              ProjRaises(prev[j]) \/ Projection(prev[j]) # Projection(cur[i])}

\* call c fired one payload for each position of P, and nothing else
NotifiesExactly(c, P) ==
    /\ Len(c.fired) = Cardinality(P)
    /\ Len(c.positions) = Len(c.fired)
    /\ {c.positions[k] : k \in 1..Len(c.positions)} = P
    /\ \A k \in 1..Len(c.fired) :
          c.fired[k] = [child_name |-> "Jane Doe", type |-> "new_grade",
                        data |-> format_grade(CurList(c)[c.positions[k]])]

\* neither format_grade nor the projection raises on a record of list s
NoRaise(s) == \A i \in 1..Len(s) : ~ProjRaises(s[i])

\* C4 as stated: with both sub-collections present, one diff notifies,
\* among the records of the current one that have a projection, exactly
\* those whose projection is the projection of no previous record, once
\* each, whatever else the lists hold.
C4_AsStated ==
    \A n \in 1..Len(calls) :
        BothPresent(calls[n])
            => LET c == calls[n]
                   P == {c.positions[k] : k \in 1..Len(c.positions)}
               IN  /\ Cardinality(P) = Len(c.positions)
                   /\ \A i \in 1..Len(CurList(c)) :
                         ~ProjRaises(CurList(c)[i])
                             => (i \in P <=> i \in NewPositions(PrevList(c), CurList(c)))

\* C4, amended: with both sub-collections present and no record of either
\* on which formatting or projection raises, one diff notifies exactly once
\* each record of the current one whose projection is the projection of no
\* previous record, and no other record.
C4_NotifiesExactlyTheNew ==
    \A n \in 1..Len(calls) :
        (/\ BothPresent(calls[n])
         /\ NoRaise(PrevList(calls[n]))
         /\ NoRaise(CurList(calls[n])))
            => NotifiesExactly(calls[n], NewPositions(PrevList(calls[n]), CurList(calls[n])))

\* a diff of two well-formed lists that notified one record of two
C4_Witness ==
    \E n \in 1..Len(calls) :
        /\ BothPresent(calls[n])
        /\ NoRaise(PrevList(calls[n])) /\ NoRaise(CurList(calls[n]))
        /\ PrevList(calls[n]) # <<>>
        /\ Len(CurList(calls[n])) = 2
        /\ calls[n].positions = <<2>>

\* C6: the diff fires nothing and catches no exception when the previous
\* snapshot is None or the key is missing from either dict.
C6_MissingIsNoOp ==
    \A n \in 1..Len(calls) :
        ~BothPresent(calls[n]) => calls[n].fired = <<>> /\ ~calls[n].raised

\* a diff ran on a previous dict without the key and a current list that
\* holds a record
C6_Witness ==
    \E n \in 1..Len(calls) :
        /\ ~calls[n].previous_data.isNone
        /\ DiffKey \notin DOMAIN calls[n].previous_data.map
        /\ DiffKey \in DOMAIN calls[n].data.map
        /\ CurList(calls[n]) # <<>>
        /\ events = <<>>

\* lists s and t agree, record by record, on the formatted comparison keys
SameViews(s, t) ==
    /\ Len(s) = Len(t)
    /\ \A i \in 1..Len(s) : KeyView(s[i]) = KeyView(t[i])

\* C7: two diffs whose lists agree on the comparison-key fields notify the
\* same positions, and a diff whose previous and current lists agree on
\* them notifies nothing.
C7_OnlyComparisonKeysMatter ==
    /\ Len(calls) = 2 => calls[1].positions = calls[2].positions
    /\ \A n \in 1..Len(calls) :
          (BothPresent(calls[n]) /\ SameViews(PrevList(calls[n]), CurList(calls[n])))
              => calls[n].fired = <<>>

\* two diffs on pairs that differ (in other fields only) in both lists, each
\* notifying one record of two
C7_Witness ==
    /\ Len(calls) = 2
    /\ BothPresent(calls[1])
    /\ PrevList(calls[2]) # PrevList(calls[1])
    /\ CurList(calls[2]) # CurList(calls[1])
    /\ Len(CurList(calls[1])) = 2
    /\ Len(calls[1].positions) = 1

\* C8: a second diff on the same pair, previous_data not updated, finds the
\* pair as the first one found it and fires what the first one fired; it
\* holds nothing back: with well-formed lists it notifies again every
\* record whose projection is the projection of no previous record; the
\* bus got both batches.
C8_SecondRunFiresTheSame ==
    (Len(calls) = 2 /\ calls[2].rerun)
        => /\ calls[2].previous_data = calls[1].previous_data
           /\ calls[2].data = calls[1].data
           /\ calls[2].fired = calls[1].fired
           /\ events = calls[1].fired \o calls[2].fired
           /\ (/\ BothPresent(calls[2])
               /\ NoRaise(PrevList(calls[2]))
               /\ NoRaise(CurList(calls[2])))
                  => NotifiesExactly(calls[2],
                                     NewPositions(PrevList(calls[2]), CurList(calls[2])))

\* the diff ran twice on one pair and notified both times
C8_Witness ==
    /\ Len(calls) = 2
    /\ calls[2].rerun
    /\ calls[1].fired # <<>>
    /\ calls[2].fired # <<>>
    /\ Len(events) = 2 * Len(calls[1].fired)

----------------------------------------------------------------------------
(* Properties of the refresh (Spec) *)

\* the key a logged fetch stores under
LogKey(e) == DataKey(remote.eleves[e.idx], e.category)

\* the blocks of the loop whose module test passes
EnabledBlocks ==
    {<<b[1], Category[b[2]]>> :
        b \in {x \in (1..Len(remote.eleves)) \X (1..Len(Category)) :
                  Module[x[2]] \in remote.eleves[x[1]].modules}}

\* every enabled block of the tick ran, once
AllBlocksRan ==
    /\ {<<log[k].idx, log[k].category>> : k \in 1..Len(log)} = EnabledBlocks
    /\ Len(log) = Cardinality(EnabledBlocks)

\* the payloads of the tick fired for the eleve of logged fetch e
FiredFor(e) ==
    SelectSeq(events, LAMBDA ev : ev.child_name = remote.eleves[e.idx].fullname)

\* what the diff of logged grades fetch e has to fire
DiffOf(e) ==
    compare_data(previous_data, [k \in {LogKey(e)} |-> e.feed], LogKey(e), "new_grade",
                 remote.eleves[e.idx]).fired

\* the last tick has ended without a session (having asked for one)
SessionFailed == pc = "idle" /\ ret.kind # "none" /\ session.isNone /\ data # NoAttribute

\* a tick has ended by returning a dict
ReturnedSnapshot == pc = "idle" /\ ret.kind = "returned" /\ ~ret.value.isNone

\* C1 as stated: after a tick whose session acquisition failed, the state
\* returned and retained is the previous snapshot (None on the first tick),
\* and the tick fired nothing.
C1_AsStated ==
    SessionFailed
        => /\ ret.kind = "returned" => ret.value = previous_data
           /\ data = previous_data
           /\ events = <<>>

\* C5 as stated: after a tick that returned a snapshot, the key of every
\* fetch that raised is absent from it, every enabled block ran, and every
\* grades list fetched was diffed.
C5_AsStated ==
    (pc = "idle" /\ ret.kind = "returned" /\ ~ret.value.isNone)
        => /\ \A k \in 1..Len(log) :
                 ~log[k].ok => LogKey(log[k]) \notin DOMAIN ret.value.map
           /\ AllBlocksRan
           /\ \A k \in 1..Len(log) :
                 (log[k].ok /\ log[k].category = "grades") => FiredFor(log[k]) = DiffOf(log[k])

\* C9 as stated, for the ticks that return: a tick in which a comparison
\* raised returns the snapshot in which every fetch of the tick that returned
\* has its entry, the list that fetch returned (the compared grades list
\* too).
C9_AsStated ==
    (ReturnedSnapshot /\ \E k \in 1..Len(log) : log[k].compare_raised)
        => \A k \in 1..Len(log) :
              log[k].ok => /\ LogKey(log[k]) \in DOMAIN ret.value.map
                           /\ ret.value.map[LogKey(log[k])] = log[k].feed

\* C10: a tick that acquired no session returns None or raises; a tick
\* that acquired one returns, if it returns, a dict that holds it under
\* "session".
C10_SessionIffSnapshot ==
    (pc = "idle" /\ ret.kind # "none")
        => IF session.isNone
           THEN ret.kind = "raised" \/ ret.value = None
           ELSE ret.kind = "returned"
                    => /\ ~ret.value.isNone
                       /\ "session" \in DOMAIN ret.value.map
                       /\ ret.value.map["session"] = session.map

\* a tick returned a snapshot holding another session than the previous one
C10_Witness ==
    /\ pc = "idle"
    /\ ret.kind = "returned"
    /\ ~ret.value.isNone
    /\ ~previous_data.isNone
    /\ ret.value.map["session"] = session.map
    /\ ret.value.map["session"] # previous_data.map["session"]

----------------------------------------------------------------------------
(* Properties across ticks (SpecHist) *)

\* the payloads this step fires
NewlyFired ==
    IF Len(events') > Len(events) THEN SubSeq(events', Len(events) + 1, Len(events')) ELSE <<>>

\* C2 as stated: no step fires a payload for an identity (child, formatted
\* date, subject and grade_out_of) that was notified before, or two payloads
\* for one identity.
C2_AsStated ==
    [][\A k \in 1..Len(NewlyFired) :
          /\ <<NewlyFired[k].child_name, EventView(NewlyFired[k])>> \notin hist.notified
          /\ \A m \in 1..Len(NewlyFired) :
                (/\ NewlyFired[m].child_name = NewlyFired[k].child_name
                 /\ EventView(NewlyFired[m]) = EventView(NewlyFired[k])) => m = k]_vars

\* the grades key of the child a payload names
EventKey(ev) == DataKey([fullname |-> ev.child_name], "grades")

\* C2, amended: a payload is fired in a tick only for an identity that no
\* record of the previous snapshot's list under the same key carries.
C2_NotInPreviousSnapshot ==
    \A k \in 1..Len(events) :
        /\ ~previous_data.isNone
        /\ EventKey(events[k]) \in DOMAIN previous_data.map
        /\ \A j \in 1..Len(previous_data.map[EventKey(events[k])]) :
              KeyView(previous_data.map[EventKey(events[k])][j]) # EventView(events[k])

\* a tick notified a record while the previous list held another one
C2_Witness ==
    /\ pc = "idle"
    /\ events # <<>>
    /\ previous_data.map[EventKey(events[1])] # <<>>

\* this step is a grades fetch that returned
GradesFetched ==
    /\ Len(log') = Len(log) + 1
    /\ log'[Len(log')].category = "grades"
    /\ log'[Len(log')].ok

\* C3 as stated: when a grades fetch returns a record whose identity was in
\* no earlier fetched list of the eleve, and the eleve had an earlier
\* successful fetch, the step fires a payload for it (a step whose
\* comparison raised left aside).
C3_AsStated ==
    [][(GradesFetched /\ ~log'[Len(log')].compare_raised)
         => LET e == log'[Len(log')]
                eleve == remote.eleves[e.idx]
            IN  \A i \in 1..Len(e.feed) :
                    (/\ ~ProjRaises(e.feed[i])
                     /\ eleve.eleve_id \in hist.had
                     /\ <<eleve.eleve_id, KeyView(e.feed[i])>> \notin hist.seen)
                        => \E k \in 1..Len(NewlyFired) :
                              /\ NewlyFired[k].child_name = eleve.fullname
                              /\ EventView(NewlyFired[k]) = KeyView(e.feed[i])]_vars

\* C3, amended: for a grades list fetched in a tick, if the previous
\* snapshot exists and holds the key and formatting and projection raise on
\* no record of the two lists, every record whose identity no record of
\* the previous list carries is notified in that tick; if the previous
\* snapshot is None or lacks the key, nothing is notified for the eleve in
\* that tick.
C3_NewAgainstPreviousSnapshot ==
    \A n \in 1..Len(log) :
        (log[n].ok /\ log[n].category = "grades")
            => LET e == log[n]
                   eleve == remote.eleves[e.idx]
               IN  IF ~previous_data.isNone /\ LogKey(e) \in DOMAIN previous_data.map
                   THEN LET prev == previous_data.map[LogKey(e)]
                        IN  (NoRaise(prev) /\ NoRaise(e.feed))
                                => \A i \in 1..Len(e.feed) :
                                      (\A j \in 1..Len(prev) :
                                          KeyView(prev[j]) # KeyView(e.feed[i]))
                                          => \E k \in 1..Len(events) :
                                                events[k] = [child_name |-> eleve.fullname,
                                                             type |-> "new_grade",
                                                             data |-> format_grade(e.feed[i])]
                   ELSE FiredFor(e) = <<>>

\* a record that the eleve's earlier fetches never returned was notified
\* in the tick that fetched it
C3_Witness ==
    /\ pc = "idle"
    /\ events # <<>>
    /\ \E n \in 1..Len(log) :
          /\ log[n].ok /\ log[n].category = "grades"
          /\ previous_data.map[LogKey(log[n])] # <<>>
          /\ log[n].feed # <<>>
          /\ KeyView(log[n].feed[1]) = EventView(events[1])

----------------------------------------------------------------------------
(* Properties of the academic-year label (SpecYear) *)

\* the pairs of years (a, b) that label names: label is the decimal numeral
\* of a, a dash, and the decimal numeral of b
YearsNamed(label) ==
    {<<a, b>> \in (FirstYear - 1..LastYear + 2) \X (FirstYear - 1..LastYear + 2) :
        label = str(a) \o "-" \o str(b)}

\* C11: the step that acquires a session in calendar year y sets the label
\* to (y-1)-(y) when y is even and to (y)-(y+1) when y is odd; 2024 gives
\* 2023-2024 and 2025 gives 2025-2026.
C11_YearLabel ==
    [][(session.isNone /\ ~session'.isNone)
         => /\ YearsNamed(year_data') =
                  {IF now_year % 2 = 0 THEN <<now_year - 1, now_year>>
                   ELSE <<now_year, now_year + 1>>}
            /\ now_year = 2024 => year_data' = "2023-2024"
            /\ now_year = 2025 => year_data' = "2025-2026"]_vars

\* a tick in 2025, after a tick in 2024, has computed its label
C11_Witness ==
    /\ now_year = 2025
    /\ ~session.isNone
    /\ ~previous_data.isNone
    /\ year_data = "2025-2026"

----------------------------------------------------------------------------
(* Order of fetches and diffs within a tick (Spec) *)

\* the categories whose fetch for the eleve at position i is in the log
\* (returned or raised)
Completed(i) == {log[k].category : k \in {n \in 1..Len(log) : log[n].idx = i}}

\* the categories the module set of the eleve at position i enables
EnabledOf(i) == {Category[c] : c \in {x \in 1..Len(Category) : Module[x] \in remote.eleves[i].modules}}

\* C12 as stated: once a payload was fired for an eleve in a tick, every
\* enabled fetch of an eleve of that name has completed (returned, or raised
\* an Exception): none is outstanding.
C12_AsStated ==
    \A k \in 1..Len(events) :
        \E i \in 1..Len(remote.eleves) :
            /\ remote.eleves[i].fullname = events[k].child_name
            /\ EnabledOf(i) \subseteq Completed(i)

----------------------------------------------------------------------------
(* The first tick and the tick after a session failure (SpecHist) *)

\* no tick has ended yet
FirstTick == ret.kind = "none"

\* the last tick that ended got no session: None was returned
AfterSessionNone == ret.kind = "returned" /\ ret.value.isNone

\* the last tick that ended got no session: the acquisition raised (lines
\* 60-62), which ended the tick there
AfterSessionRaised == ret.kind = "raised" /\ ret.at = "session"

----------------------------------------------------------------------------
(* The keys of a returned snapshot (Spec) *)

\* the lowercased full names, written out
LowerName(eleve) ==
    CASE eleve.eleve_id = 1 -> "jane doe"
      [] eleve.eleve_id = 2 -> "bob roe"
      [] eleve.eleve_id = 3 -> "jane doe"

\* C14: the keys of a returned snapshot are "session" and, for every fetch
\* of the tick that returned, the lowercased full name, an underscore and
\* the category; every fetch of the tick was for an enabled module of an
\* eleve of the session, and each ran once.
C14_KeysOfSnapshot ==
    ReturnedSnapshot
        => /\ DOMAIN ret.value.map
                 = {"session"}
                   \cup {LowerName(session.map.eleves[log[k].idx]) \o "_" \o log[k].category :
                            k \in {n \in 1..Len(log) : log[n].ok}}
           /\ \A k \in 1..Len(log) : <<log[k].idx, log[k].category>> \in EnabledBlocks
           /\ AllBlocksRan

\* a returned snapshot lacks a key the previous snapshot held, and holds
\* the keys of the fetches that returned
C14_Witness ==
    /\ ReturnedSnapshot
    /\ ~previous_data.isNone
    /\ "bob roe_grades" \in DOMAIN previous_data.map
    /\ DOMAIN ret.value.map = {"session", "jane doe_homework", "jane doe_grades"}

----------------------------------------------------------------------------
(* What a payload says (Spec) *)

\* payload ev is for a record of the list self.data holds under the grades
\* key of eleve
InGradesEntry(ev, eleve) ==
    /\ ~data.isNone
    /\ DataKey(eleve, "grades") \in DOMAIN data.map
    /\ \E j \in 1..Len(data.map[DataKey(eleve, "grades")]) :
          /\ ~FormatRaises(data.map[DataKey(eleve, "grades")][j])
          /\ ev.data = format_grade(data.map[DataKey(eleve, "grades")][j])

\* C15 as stated: every payload fired in the tick has type new_grade, names
\* an eleve of the session with the NOTES module whose grades fetch returned
\* in this tick, and carries the formatted form of a record of that eleve's
\* grades entry of self.data.
C15_AsStated ==
    \A k \in 1..Len(events) :
        /\ events[k].type = "new_grade"
        /\ \E n \in 1..Len(log) :
              /\ log[n].ok /\ log[n].category = "grades"
              /\ get_fullname(session.map.eleves[log[n].idx]) = events[k].child_name
              /\ "NOTES" \in session.map.eleves[log[n].idx].modules
              /\ InGradesEntry(events[k], session.map.eleves[log[n].idx])

----------------------------------------------------------------------------
(* Order of emission within one diff (SpecDiff) *)

\* records p and q have the same projection onto the comparison keys
Match(p, q) == ~ProjRaises(p) /\ ~ProjRaises(q) /\ Projection(p) = Projection(q)

\* the positions of cur whose record matches no record of prev
NotFound(prev, cur) ==
    {i \in 1..Len(cur) : \A j \in 1..Len(prev) : ~Match(prev[j], cur[i])}

\* C16: one diff fires its payloads in the order of the current list, for
\* the records that match no previous record, skipping none (it stops early
\* only on an exception); and it fires nothing when a projection raises on
\* a current record during the scan, wherever in the list that record is.
C16_ScanThenEmitInOrder ==
    \A n \in 1..Len(calls) :
        BothPresent(calls[n])
            => LET c == calls[n]
                   new == NotFound(PrevList(c), CurList(c))
               IN  /\ Len(c.fired) = Len(c.positions)
                   /\ \A k \in 1..Len(c.positions) :
                         /\ c.positions[k] \in new
                         /\ {i \in new : i < c.positions[k]}
                               = {c.positions[m] : m \in 1..(k - 1)}
                         /\ c.fired[k] = [child_name |-> "Jane Doe", type |-> "new_grade",
                                          data |-> format_grade(CurList(c)[c.positions[k]])]
                   /\ Len(c.positions) = Cardinality(new) \/ c.raised
                   /\ (PrevList(c) # <<>> /\ ~NoRaise(CurList(c))) => c.fired = <<>>

\* a diff against a previous list that holds a record fired two different
\* payloads, for the first and the second record of the current list
C16_Witness ==
    \E n \in 1..Len(calls) :
        /\ BothPresent(calls[n])
        /\ PrevList(calls[n]) # <<>>
        /\ calls[n].positions = <<1, 2>>
        /\ calls[n].fired[1] # calls[n].fired[2]

----------------------------------------------------------------------------
(* Termination of a tick (SpecLive) *)

\* the tick that ended had acquired a session
EndedWithSession == pc = "idle" /\ ~session.isNone

\* C17 as stated: a tick ends by raising only when no session was acquired.
C17_AsStated == (pc = "idle" /\ ret.kind = "raised") => session.isNone

\* C17, amended: every tick that started ends; a tick whose session was
\* acquired ends by raising only at a fetch whose await raised what is no
\* Exception; whatever fetches raised Exceptions and whatever comparisons
\* raised, it returns a dict, after running every enabled block.
C17_TickReturns ==
    /\ (pc # "idle") ~> (pc = "idle")
    /\ []((EndedWithSession /\ ret.kind = "raised") => log[Len(log)].escaped)
    /\ []((EndedWithSession /\ \A k \in 1..Len(log) : ~log[k].escaped)
            => (ret.kind = "returned" /\ ~ret.value.isNone /\ AllBlocksRan))

\* a tick returned a dict although a fetch raised and a comparison raised
C17_Witness ==
    /\ pc = "idle"
    /\ ret.kind = "returned"
    /\ ~ret.value.isNone
    /\ \E k \in 1..Len(log) : ~log[k].ok
    /\ \E k \in 1..Len(log) : log[k].compare_raised

----------------------------------------------------------------------------
(* What a reader sees during a tick; eleves that share a name (Spec) *)

\* C18 as stated: while a tick is in flight, self.data is the snapshot of
\* the previous tick.
C18_AsStated == pc # "idle" => data = previous_data

\* C19 as stated: self.data holds, under the key of every fetch of the
\* tick that returned, the list that fetch returned.
C19_AsStated ==
    \A k \in 1..Len(log) :
        log[k].ok => /\ ~data.isNone
                     /\ LogKey(log[k]) \in DOMAIN data.map
                     /\ data.map[LogKey(log[k])] = log[k].feed

----------------------------------------------------------------------------
(* Exceptions inside one diff (SpecDiff) *)

\* the scan of cur against prev raises: at some current record, a
\* projection raises before a match is found
ScanRaises(prev, cur) ==
    \E i \in 1..Len(cur) :
        /\ prev # <<>>
        /\ \/ ProjRaises(cur[i])
           \/ \E j \in 1..Len(prev) :
                 /\ ProjRaises(prev[j])
                 /\ \A h \in 1..(j - 1) : ~Match(prev[h], cur[i])

\* C20: a diff whose scan raises, at whichever current record, fires
\* nothing and catches the exception; a diff that fired payloads and caught
\* an exception had an empty previous list (its scan formatted nothing, and
\* formatting raised in the loop that fires).
C20_ScanFailureEmitsNothing ==
    \A n \in 1..Len(calls) :
        BothPresent(calls[n])
            => LET c == calls[n]
               IN  /\ ScanRaises(PrevList(c), CurList(c)) => (c.fired = <<>> /\ c.raised)
                   /\ (c.raised /\ c.fired # <<>>) => PrevList(c) = <<>>

\* a diff found its first current record new and raised on the second: it
\* fired nothing
C20_Witness ==
    \E n \in 1..Len(calls) :
        /\ BothPresent(calls[n])
        /\ PrevList(calls[n]) # <<>>
        /\ NoRaise(PrevList(calls[n]))
        /\ Len(CurList(calls[n])) = 2
        /\ 1 \in NotFound(PrevList(calls[n]), CurList(calls[n]))
        /\ ~ProjRaises(CurList(calls[n])[1])
        /\ ProjRaises(CurList(calls[n])[2])
        /\ calls[n].fired = <<>>
        /\ calls[n].raised

====
